---- MODULE Spec2Model ----
(***************************************************************************)
(* Model of the sales dashboard of src/app.py: the record set produced by  *)
(* load_data, the two sidebar widgets (product multiselect, date range),   *)
(* and the values that one run of main() derives from them: the filtered   *)
(* frame of create_sidebar, the period metrics and deltas of               *)
(* display_metrics, and the two groupings of display_charts.               *)
(*                                                                         *)
(* A record is [fecha, producto, ventas].  fecha is a timestamp           *)
(* [dia, hora]: a calendar day (day 0 is the first generated day) and a    *)
(* time of day; its calendar date is the dia alone.                        *)
(* Floating-point values (mean, percentage delta) are exact rationals      *)
(* [kind, num, den] in lowest terms; NaN and None are values of the same   *)
(* shape, so that every comparison is defined.                             *)
(***************************************************************************)
EXTENDS Integers, Sequences, FiniteSets

\* ---- bounds of the model -------------------------------------------------
\* number of generated days (180 in load_data)
NumDays == 3

\* times of day (hours) datetime.now() is called at
Horas == {9}

\* product catalog (five names in load_data, two kept)
Products == {"Laptop Pro", "Tablet"}
\* transactions generated per day (randint(10, 30) in load_data, scaled)
TxCounts == {1, 2}
\* amounts of a transaction (randint(50, 5000) in load_data, one kept)
VentasValues == {50}

VARIABLES df_original, producto_seleccionado, date_range, df_filtrado, metrics, charts

vars == <<df_original, producto_seleccionado, date_range, df_filtrado, metrics, charts>>

\* ---- numbers ---------------------------------------------------------------
Abs(n) == IF n < 0 THEN -n ELSE n

RECURSIVE GCD(_, _)
GCD(a, b) == IF b = 0 THEN a ELSE GCD(b, a % b)

\* the rational n/d (d # 0) in lowest terms with a positive denominator
Num(n, d) ==
    LET g == GCD(Abs(n), Abs(d))
        s == IF d < 0 THEN -1 ELSE 1
    IN  [kind |-> "num", num |-> (s * n) \div g, den |-> (s * d) \div g]

\* float('nan'): the mean of an empty column
NaN == [kind |-> "nan", num |-> 0, den |-> 0]

\* Python's None
None == [kind |-> "none", num |-> 0, den |-> 0]

\* ---- column helpers (pandas) ------------------------------------------------
\* Series.dt.date: the calendar date of a timestamp
date(fecha) == fecha.dia

\* df['producto'].unique() as a set
unique(df) == {df[i].producto : i \in DOMAIN df}

\* df['producto'].nunique()
nunique(df) == Cardinality(unique(df))

\* df['ventas'].sum(); 0 on an empty frame
RECURSIVE sum_upto(_, _)
sum_upto(df, n) == IF n = 0 THEN 0 ELSE sum_upto(df, n - 1) + df[n].ventas

sum(df) == sum_upto(df, Len(df))

\* df['ventas'].mean(); NaN on an empty frame
mean(df) == IF df = <<>> THEN NaN ELSE Num(sum(df), Len(df))

SetMin(S) == CHOOSE x \in S : \A y \in S : x <= y

SetMax(S) == CHOOSE x \in S : \A y \in S : x >= y

\* df['fecha'].min().date()
min_date(df) == SetMin({date(df[i].fecha) : i \in DOMAIN df})

\* df['fecha'].max().date()
max_date(df) == SetMax({date(df[i].fecha) : i \in DOMAIN df})

\* ---- load_data --------------------------------------------------------------
\* the rows one day can get: num_transactions rows of (producto, ventas)
DayTransactions == UNION {[1..n -> Products \X VentasValues] : n \in TxCounts}

\* the rows of day i, all at the time of day tod of datetime.now()
DayRows(i, tod, tx) ==
    [k \in 1..Len(tx) |->
        [fecha |-> [dia |-> i, hora |-> tod], producto |-> tx[k][1], ventas |-> tx[k][2]]]

\* the frame for days 0..n-1, in generation order
RECURSIVE load_data_upto(_, _, _)
load_data_upto(n, tod, txs) ==
    IF n = 0 THEN <<>>
    ELSE load_data_upto(n - 1, tod, txs) \o DayRows(n - 1, tod, txs[n - 1])

load_data(tod, txs) == load_data_upto(NumDays, tod, txs)

\* ---- create_sidebar ---------------------------------------------------------
product_filter_always(df, seleccion) == SelectSeq(df, LAMBDA r : r.producto \in seleccion)

\* the product filter: skipped when the selection is empty
product_filter(df, seleccion) ==
    IF seleccion # {}
    THEN SelectSeq(df, LAMBDA r : r.producto \in seleccion)
    ELSE df

\* a timestamp against a date taken as that date's midnight
ts_geq(fecha, d) == fecha.dia > d \/ (fecha.dia = d /\ fecha.hora >= 0)

ts_leq(fecha, d) == fecha.dia < d \/ (fecha.dia = d /\ fecha.hora <= 0)

date_filter_timestamp(df, rango) ==
    IF Len(rango) = 2
    THEN SelectSeq(df, LAMBDA r : ts_geq(r.fecha, rango[1]) /\ ts_leq(r.fecha, rango[2]))
    ELSE df

date_filter_exclusive_end(df, rango) ==
    IF Len(rango) = 2
    THEN SelectSeq(df, LAMBDA r : date(r.fecha) >= rango[1] /\ date(r.fecha) < rango[2])
    ELSE df

\* the date filter: applied only when both bounds are present
date_filter(df, rango) ==
    IF Len(rango) = 2
    THEN SelectSeq(df, LAMBDA r : date(r.fecha) >= rango[1] /\ date(r.fecha) <= rango[2])
    ELSE df

\* df_filtrado as returned by create_sidebar
create_sidebar(df, seleccion, rango) == date_filter(product_filter(df, seleccion), rango)

\* ---- calculate_delta --------------------------------------------------------
calculate_delta_silent_zero(current_value, prior_value) ==
    IF prior_value.kind = "none" \/ (prior_value.kind = "num" /\ prior_value.num = 0)
    THEN Num(0, 1)
    ELSE IF current_value.kind # "num" \/ prior_value.kind # "num"
    THEN NaN
    ELSE Num((current_value.num * prior_value.den - prior_value.num * current_value.den) * 100,
             current_value.den * prior_value.num)

\* None when the prior value is zero or None, else the percentage change;
\* NaN propagates through the arithmetic
calculate_delta(current_value, prior_value) ==
    IF prior_value.kind = "none" \/ (prior_value.kind = "num" /\ prior_value.num = 0)
    THEN None
    ELSE IF current_value.kind # "num" \/ prior_value.kind # "num"
    THEN NaN
    ELSE Num((current_value.num * prior_value.den - prior_value.num * current_value.den) * 100,
             current_value.den * prior_value.num)

\* ---- display_metrics --------------------------------------------------------
period_duration_no_plus_one(start_date, end_date) == end_date - start_date

period_duration(start_date, end_date) == (end_date - start_date) + 1

prior_end_date(start_date, end_date) == start_date - 1

prior_start_date(start_date, end_date) ==
    prior_end_date(start_date, end_date) - (period_duration(start_date, end_date) - 1)

productos_actuales_catalog(df_actual) == Products

\* the products the prior period is restricted to
productos_actuales(df_actual) == unique(df_actual)

\* df_prior when both bounds are present
prior_frame(df_actual, df, rango) ==
    LET ps == prior_start_date(rango[1], rango[2])
        pe == prior_end_date(rango[1], rango[2])
        window == SelectSeq(df, LAMBDA r : date(r.fecha) >= ps /\ date(r.fecha) <= pe)
        productos == productos_actuales(df_actual)
    IN  SelectSeq(window, LAMBDA r : r.producto \in productos)

prior_mean_unguarded(has_prior, df_prior) == IF has_prior THEN mean(df_prior) ELSE Num(0, 1)

\* promedio_venta_prior: 0 when df_prior is None or empty
prior_mean(has_prior, df_prior) ==
    IF has_prior /\ df_prior # <<>> THEN mean(df_prior) ELSE Num(0, 1)

display_metrics(df_actual, df, rango) ==
    LET has_prior == Len(rango) = 2
        df_prior == IF has_prior THEN prior_frame(df_actual, df, rango) ELSE <<>>
        total_actual == sum(df_actual)
        total_prior == IF has_prior THEN sum(df_prior) ELSE 0
        unicos_actual == nunique(df_actual)
        unicos_prior == IF has_prior THEN nunique(df_prior) ELSE 0
        promedio_actual == mean(df_actual)
        promedio_prior == prior_mean(has_prior, df_prior)
    IN  [ has_prior |-> has_prior,
          prior_range |-> IF has_prior
                          THEN <<prior_start_date(rango[1], rango[2]),
                                 prior_end_date(rango[1], rango[2])>>
                          ELSE <<>>,
          df_prior |-> df_prior,
          total_venta_actual |-> total_actual,
          total_venta_prior |-> total_prior,
          delta_venta |-> calculate_delta(Num(total_actual, 1), Num(total_prior, 1)),
          productos_unicos_actual |-> unicos_actual,
          productos_unicos_prior |-> unicos_prior,
          delta_productos |-> unicos_actual - unicos_prior,
          promedio_venta_actual |-> promedio_actual,
          promedio_venta_prior |-> promedio_prior,
          delta_promedio |-> calculate_delta(promedio_actual, promedio_prior) ]

\* ---- display_charts ---------------------------------------------------------
\* the 'Ventas' cell of the group of calendar date d
daily_total(df, d) == sum(SelectSeq(df, LAMBDA r : date(r.fecha) = d))

product_total_last(df, p) ==
    LET grupo == SelectSeq(df, LAMBDA r : r.producto = p)
    IN  IF grupo = <<>> THEN 0 ELSE grupo[Len(grupo)].ventas

\* the 'Ventas' cell of the group of product p
product_total(df, p) == sum(SelectSeq(df, LAMBDA r : r.producto = p))

\* df.groupby(df['fecha'].dt.date)['ventas'].sum().reset_index(): one row per
\* date that occurs, ascending, no row for a date without transactions
RECURSIVE tendencia_from(_, _, _)
tendencia_from(df, d, last) ==
    IF d > last THEN <<>>
    ELSE (IF \E i \in DOMAIN df : date(df[i].fecha) = d
          THEN <<[Fecha |-> d, Ventas |-> daily_total(df, d)]>>
          ELSE <<>>) \o tendencia_from(df, d + 1, last)

df_tendencia(df) == IF df = <<>> THEN <<>> ELSE tendencia_from(df, min_date(df), max_date(df))

\* df.groupby('producto')['ventas'].sum(): one entry per product that occurs
ventas_por_producto(df) == [p \in unique(df) |-> product_total(df, p)]

display_charts(df) ==
    [df_tendencia |-> df_tendencia(df), ventas_por_producto |-> ventas_por_producto(df)]

\* ---- main: one run of the script -------------------------------------------
main_incremental(df, seleccion, rango) ==
    /\ producto_seleccionado' = seleccion
    /\ date_range' = rango
    /\ df_filtrado' = create_sidebar(df_filtrado, seleccion, rango)
    /\ metrics' = display_metrics(df_filtrado', df, rango)
    /\ charts' = display_charts(df_filtrado')
    /\ UNCHANGED df_original

\* everything a run derives from the widget values seleccion and rango
main(df, seleccion, rango) ==
    /\ producto_seleccionado' = seleccion
    /\ date_range' = rango
    /\ df_filtrado' = create_sidebar(df, seleccion, rango)
    /\ metrics' = display_metrics(df_filtrado', df, rango)
    /\ charts' = display_charts(df_filtrado')
    /\ UNCHANGED df_original

\* the first run: both widgets at their defaults
Init ==
    \E tod \in Horas : \E txs \in [0..(NumDays - 1) -> DayTransactions] :
        /\ df_original = load_data(tod, txs)
        /\ producto_seleccionado = unique(df_original)
        /\ date_range = <<min_date(df_original), max_date(df_original)>>
        /\ df_filtrado = create_sidebar(df_original, producto_seleccionado, date_range)
        /\ metrics = display_metrics(df_filtrado, df_original, date_range)
        /\ charts = display_charts(df_filtrado)

\* the user changes the multiselect
ChangeProducts ==
    \E seleccion \in SUBSET unique(df_original) :
        /\ seleccion # producto_seleccionado
        /\ main(df_original, seleccion, date_range)

\* the user picks both dates of the range
ChangeDateRange ==
    \E start \in min_date(df_original)..max_date(df_original) :
        \E end \in start..max_date(df_original) :
            /\ <<start, end>> # date_range
            /\ main(df_original, producto_seleccionado, <<start, end>>)

\* the user has picked the first date only: the widget returns a 1-tuple
PickStartDate ==
    \E start \in min_date(df_original)..max_date(df_original) :
        /\ <<start>> # date_range
        /\ main(df_original, producto_seleccionado, <<start>>)

Next == ChangeProducts \/ ChangeDateRange \/ PickStartDate

Spec == Init /\ [][Next]_vars

\* ---- helpers of the properties ---------------------------------------------
\* the calendar date of row r lies in [lo, hi]
InWindow(r, lo, hi) == lo <= r.fecha.dia /\ r.fecha.dia <= hi

\* the rows of the original frame that pass the product step as the user set it
ProductRows == product_filter(df_original, producto_seleccionado)

RangeComplete == Len(date_range) = 2

\* the sum of the 'Ventas' column of a grouped frame
RECURSIVE SumVentasCol(_)
SumVentasCol(rows) == IF rows = <<>> THEN 0 ELSE rows[1].Ventas + SumVentasCol(Tail(rows))

\* the sum of the values of a mapping
RECURSIVE SumMap(_)
SumMap(f) ==
    IF DOMAIN f = {} THEN 0
    ELSE LET k == CHOOSE x \in DOMAIN f : TRUE
         IN  f[k] + SumMap([x \in DOMAIN f \ {k} |-> f[x]])

\* the rows of the original frame dated in the prior window
PriorWindowRows ==
    SelectSeq(df_original,
              LAMBDA r : InWindow(r, metrics.prior_range[1], metrics.prior_range[2]))

\* ---- C1 --------------------------------------------------------------------
\* C1 as stated: with an empty product selection the filtered result is the
\* empty record set.
C1_EmptySelectionYieldsEmpty == producto_seleccionado = {} => df_filtrado = <<>>

\* C1 amended: with an empty product selection the product filter is skipped;
\* the filtered result is every original record that passes the date filter
\* (all records when the date range is partial).
C1_EmptySelectionSkipsProductFilter ==
    producto_seleccionado = {} =>
        df_filtrado = IF RangeComplete
                      THEN SelectSeq(df_original,
                                     LAMBDA r : InWindow(r, date_range[1], date_range[2]))
                      ELSE df_original

C1_Witness ==
    /\ producto_seleccionado = {}
    /\ RangeComplete
    /\ df_filtrado # <<>>
    /\ Len(df_filtrado) < Len(df_original)

\* ---- C2 --------------------------------------------------------------------
\* C2: with both bounds present a record that passed the product filter is kept
\* iff start <= calendar date <= end, whatever its time of day; with one bound
\* present every record that passed the product filter is kept.
C2_DateFilter ==
    IF RangeComplete
    THEN df_filtrado = SelectSeq(ProductRows,
                                 LAMBDA r : InWindow(r, date_range[1], date_range[2]))
    ELSE df_filtrado = ProductRows

C2_Witness ==
    /\ RangeComplete
    /\ Len(df_filtrado) < Len(ProductRows)
    /\ \E i \in DOMAIN df_filtrado :
          df_filtrado[i].fecha.dia = date_range[2] /\ df_filtrado[i].fecha.hora > 0

\* ---- C3 --------------------------------------------------------------------
\* C3: the percentage delta is None exactly when the prior value is zero or
\* None (so also when the prior period has no records); otherwise it is
\* (current - prior) / prior * 100, which is 0 when current = prior.
C3_Delta ==
    LET c == metrics.total_venta_actual
        p == metrics.total_venta_prior
        dv == metrics.delta_venta
        ca == metrics.promedio_venta_actual
        pa == metrics.promedio_venta_prior
        dp == metrics.delta_promedio
    IN  /\ p = 0 => dv = None
        /\ p # 0 => dv.kind = "num" /\ dv.num * p = (c - p) * 100 * dv.den
        /\ (p # 0 /\ c = p) => dv.kind = "num" /\ dv.num = 0
        /\ (metrics.has_prior /\ metrics.df_prior = <<>>) => dv = None /\ dp = None
        /\ pa.num = 0 => dp = None
        /\ pa.num # 0 =>
              /\ dp.kind = "num"
              /\ dp.num * ca.den * pa.num = (ca.num * pa.den - pa.num * ca.den) * 100 * dp.den
        /\ calculate_delta(Num(c, 1), None) = None
        /\ calculate_delta(ca, None) = None

C3_Witness ==
    /\ metrics.has_prior
    /\ metrics.df_prior = <<>>
    /\ metrics.total_venta_actual > 0
    /\ metrics.delta_venta = None

\* ---- C4 --------------------------------------------------------------------
\* C4: for a complete range [start, end] of d = end - start + 1 days the prior
\* window is [start - d, start - 1]: it ends the day before start, has d days
\* and shares no day with the current window.
C4_PriorWindow ==
    RangeComplete =>
        LET start == date_range[1]
            end == date_range[2]
            d == end - start + 1
            ps == metrics.prior_range[1]
            pe == metrics.prior_range[2]
        IN  /\ metrics.prior_range = <<start - d, start - 1>>
            /\ pe + 1 = start
            /\ pe - ps + 1 = d
            /\ \A day \in ps..pe : ~(start <= day /\ day <= end)

C4_Witness ==
    /\ RangeComplete
    /\ date_range[1] < date_range[2]
    /\ metrics.prior_range = <<2 * date_range[1] - date_range[2] - 1, date_range[1] - 1>>
    /\ metrics.df_prior # <<>>

\* ---- C5 --------------------------------------------------------------------
\* C5 as stated (for a non-empty selection): the prior-period records are
\* exactly the original records dated in the prior window whose product is in
\* the user's product selection.
C5_PriorUsesSelection ==
    (RangeComplete /\ producto_seleccionado # {}) =>
        metrics.df_prior =
            SelectSeq(PriorWindowRows, LAMBDA r : r.producto \in producto_seleccionado)

\* ---- C6 --------------------------------------------------------------------
\* C6: for a non-empty filtered set the daily totals, the per-product totals
\* and the total shown in the metrics all sum to the same amount.
C6_Conservation ==
    df_filtrado # <<>> =>
        /\ SumVentasCol(charts.df_tendencia) = metrics.total_venta_actual
        /\ SumMap(charts.ventas_por_producto) = metrics.total_venta_actual

C6_Witness ==
    /\ Len(charts.df_tendencia) >= 2
    /\ Cardinality(DOMAIN charts.ventas_por_producto) = 2
    /\ Len(df_filtrado) > Len(charts.df_tendencia)
    /\ Len(df_filtrado) < Len(df_original)

\* ---- C7 --------------------------------------------------------------------
\* C7: with every product selected and the range [earliest date, latest date]
\* the filtered set is the original record set, in the original order.
C7_FilterIdentity ==
    ( /\ producto_seleccionado = unique(df_original)
      /\ date_range = <<min_date(df_original), max_date(df_original)>> )
    => df_filtrado = df_original

C7_Witness ==
    /\ producto_seleccionado = unique(df_original)
    /\ Cardinality(producto_seleccionado) = 2
    /\ date_range = <<min_date(df_original), max_date(df_original)>>
    /\ Len(df_filtrado) > NumDays

\* ---- C8 --------------------------------------------------------------------
\* no record that passed the product filter is dated in the complete range
DateRangeMatchesNoRecord ==
    /\ RangeComplete
    /\ \A i \in DOMAIN ProductRows : ~InWindow(ProductRows[i], date_range[1], date_range[2])

\* what C8 and its amendment agree on
EmptySentinels ==
    /\ df_filtrado = <<>>
    /\ metrics.total_venta_actual = 0
    /\ metrics.productos_unicos_actual = 0
    /\ metrics.promedio_venta_actual = NaN
    /\ metrics.delta_venta = None
    /\ metrics.delta_promedio = None

\* C8 as stated: when the date range matches no record the filtered set is
\* empty, the total and the product count are 0, the average is undefined for
\* the current and for the prior period, and both percentage deltas are None.
C8_AllSentinelsUndefined ==
    DateRangeMatchesNoRecord => EmptySentinels /\ metrics.promedio_venta_prior = NaN

\* C8 amended: as stated, except that the prior-period average is 0, the value
\* the code substitutes for an empty prior set, and not undefined.
C8_EmptyFilteredSentinels ==
    DateRangeMatchesNoRecord =>
        /\ EmptySentinels
        /\ metrics.df_prior = <<>>
        /\ metrics.promedio_venta_prior = Num(0, 1)

C8_Witness ==
    /\ DateRangeMatchesNoRecord
    /\ df_filtrado = <<>>
    /\ metrics.delta_promedio = None
    /\ metrics.promedio_venta_actual = NaN

\* ---- C9 --------------------------------------------------------------------
\* everything shown equals one pass over the original frame with the current
\* widget values
SinglePass ==
    LET filtrado == create_sidebar(df_original, producto_seleccionado, date_range)
    IN  /\ df_filtrado = filtrado
        /\ metrics = display_metrics(filtrado, df_original, date_range)
        /\ charts = display_charts(filtrado)

\* C9: no interaction changes the original record set, and after any sequence
\* of interactions the filtered set, the prior set and the metrics are those of
\* a single pass with the current criteria.
C9_FullRecomputation == [](SinglePass) /\ [][df_original' = df_original]_vars

C9_Witness ==
    /\ producto_seleccionado # {}
    /\ producto_seleccionado # unique(df_original)
    /\ RangeComplete
    /\ date_range # <<min_date(df_original), max_date(df_original)>>
    /\ df_filtrado # <<>>
    /\ metrics.df_prior # <<>>

\* ---- C10 -------------------------------------------------------------------
\* C10: the absolute delta of "Productos Activos" is never negative, every
\* product of the prior set occurring in the current filtered set; without a
\* complete range, or with an empty prior set, it is the current count.
C10_DeltaProductosNonNegative ==
    /\ metrics.delta_productos >= 0
    /\ unique(metrics.df_prior) \subseteq unique(df_filtrado)
    /\ (~RangeComplete \/ metrics.df_prior = <<>>) =>
           metrics.delta_productos = metrics.productos_unicos_actual

C10_Witness ==
    /\ RangeComplete
    /\ metrics.df_prior # <<>>
    /\ Len(metrics.df_prior) < Len(PriorWindowRows)
    /\ metrics.delta_productos = 0

====
